---- MODULE Spec2Model ----
(***************************************************************************)
(* Model of plugins/modules/apache2_mod_proxy.py: one invocation of main() *)
(* against a remote Apache httpd mod_proxy balancer-manager.               *)
(*                                                                         *)
(* Text is modelled as sequences of tokens (strings), so concatenation is  *)
(* \o and a regular-expression capture is a sub-sequence.  Python's None   *)
(* is the one-token text <<"None">>, which is also what str(None) gives.   *)
(***************************************************************************)
EXTENDS Integers, Sequences, FiniteSets, TLC

VARIABLES
    params,                \* module.params and module.check_mode
    pool,                  \* the remote balancer: its workers and their Status text
    pool0,                 \* the remote balancer when the invocation started
    fault,                 \* how the remote answers: freely, or after a fixed plan
    pc,                    \* position of main()
    msg,                   \* argument of fail_json / the uncaught exception
    page,                  \* Balancer.page
    idx,                   \* position of the generator Balancer.members
    member_status,         \* main(): the desired flags
    member_status_before,  \* main(): the flags read before the write
    member_exists,         \* main()
    changed,               \* main()
    dict_status,           \* as_dict(): the "status" entry, while "attributes" is read
    json_output,           \* main(): json_output (targeted) / json_output_list (bulk)
    trace,                 \* every HTTP request issued so far, with its answer
    runNo,                 \* 1, or 2 for the second run of a check/non-check pair
    first,                 \* what the first run of a pair issued and reported
    pin,                   \* input of a pure function under test
    pout,                  \* its output
    conn                   \* one operation of a pct / pct-remote connection

vars == <<params, pool, pool0, fault, pc, msg, page, idx, member_status,
          member_status_before, member_exists, changed, dict_status,
          json_output, trace, runNo, first, pin, pout, conn>>

-----------------------------------------------------------------------------
(* Bounds                                                                  *)

MaxStates == 2         \* longest `state` list
MaxOther == 1          \* changes another actor makes during one run
RaceMaxMembers == 1    \* workers of a pool shared with another actor
MaxMembers == 2        \* most workers in the remote pool
PairMaxMembers == 1    \* most workers in the pool of a check/non-check pair
MaxFaultIdx == 4       \* a planned fault hits one of the first GETs
MaxBannerLen == 6      \* longest banner tail given to the version check

-----------------------------------------------------------------------------
(* Text helpers                                                            *)

None == <<"None">>

Range(s) == {s[k] : k \in DOMAIN s}

\* `patt in text` / re.search of a literal: patt occurs in text
Occurs(patt, text) ==
    \E k \in 0..(Len(text) - Len(patt)) :
        \A j \in 1..Len(patt) : text[k + j] = patt[j]

SeqsUpTo(S, n) == UNION {[1..k -> S] : k \in 0..n}

Digits == {"0", "1", "2", "3", "4", "5", "6", "7", "8", "9"}

-----------------------------------------------------------------------------
(* Module constants                                                        *)

\* argument_spec: choices of `state`
Choices == <<"present", "absent", "enabled", "disabled", "drained",
             "hot_standby", "ignore_errors">>

\* the keys of member_status, status_mapping and values_mapping, in the
\* order the dict literals give them (dicts keep insertion order)
Modes == <<"disabled", "drained", "hot_standby", "ignore_errors">>

ModeSet == Range(Modes)

status_mapping(mode) ==
    CASE mode = "disabled" -> "Dis"
      [] mode = "drained" -> "Drn"
      [] mode = "hot_standby" -> "Stby"
      [] mode = "ignore_errors" -> "Ign"

values_mapping(mode) ==
    CASE mode = "disabled" -> "&w_status_D"
      [] mode = "drained" -> "&w_status_N"
      [] mode = "hot_standby" -> "&w_status_H"
      [] mode = "ignore_errors" -> "&w_status_I"

-----------------------------------------------------------------------------
(* Regular expressions                                                     *)

\* APACHE_VERSION_EXPRESSION.search(content).group(1): the longest run of
\* digits and dots that follows "SERVER VERSION: APACHE/" in the upper-cased
\* page; <<>> when the banner is missing or no such character follows it.
\* A page is [banner |-> [present, tail], anchors]; tail is the text after
\* the banner prefix, one character per token.
VersionPrefixLen(tail) ==
    IF \A k \in DOMAIN tail : tail[k] \in Digits \cup {"."}
    THEN Len(tail)
    ELSE (CHOOSE k \in DOMAIN tail :
              /\ tail[k] \notin Digits \cup {"."}
              /\ \A j \in 1..(k - 1) : tail[j] \in Digits \cup {"."}) - 1

APACHE_VERSION_EXPRESSION(content) ==
    IF content.banner.present
    THEN SubSeq(content.banner.tail, 1, VersionPrefixLen(content.banner.tail))
    ELSE <<>>

\* EXPRESSION.search(management_url).group(g).  A management URL is the
\* record of the parts the expression captures, each a text:
\* [b, protocol, host, port, path, nonce]; group 1 is the whole match.
EXPRESSION(url, g) ==
    CASE g = 1 -> <<"b=">> \o url.b \o <<"&w=">> \o url.protocol \o <<"://">>
                  \o url.host
                  \o (IF url.port # <<>> THEN <<":">> \o url.port ELSE <<>>)
                  \o url.path
                  \o (IF url.nonce # <<>> THEN <<"&", "nonce=">> \o url.nonce
                      ELSE <<>>)
      [] g = 2 -> url.b
      [] g = 3 -> url.protocol
      [] g = 4 -> url.host
      [] g = 5 -> url.port
      [] g = 6 -> url.path

\* regexp_extraction: the group, or None when it is empty
regexp_extraction(group) == IF group # <<>> THEN group ELSE None

\* re.search(r"2\.4\.[\d]*", apache_version)
VersionSupported(apache_version) == Occurs(<<"2", ".", "4", ".">>, apache_version)

-----------------------------------------------------------------------------
(* The remote balancer-manager, as fetch_url shows it                      *)

Worker(host, port, path) ==
    [b |-> <<"mycluster">>, protocol |-> <<"http">>, host |-> host,
     port |-> port, path |-> path, nonce |-> <<"4f1a-77">>]

\* the workers a pool is drawn from: two on the same host, and one whose
\* host contains the other host's text and which names no port
Workers == {Worker(<<"a">>, <<"80">>, <<>>),
            Worker(<<"a">>, <<"81">>, <<"/app">>),
            Worker(<<"a", "b">>, <<>>, <<>>)}

\* the first anchor of the page, which is no member
NavAnchor ==
    [b |-> <<>>, protocol |-> <<>>, host |-> <<>>, port |-> <<>>,
     path |-> <<>>, nonce |-> <<>>]

\* the Status cell a worker with these flags shows
RemoteStatusText(flags) ==
    <<"Init">>
    \o (IF "disabled" \in flags THEN <<"Dis">> ELSE <<>>)
    \o (IF "drained" \in flags THEN <<"Drn">> ELSE <<>>)
    \o (IF "hot_standby" \in flags THEN <<"Stby">> ELSE <<>>)
    \o (IF "ignore_errors" \in flags THEN <<"Ign">> ELSE <<>>)
    \o <<"Ok">>

\* the flag sets a worker starts with
InitFlagSets == {{}, {"disabled"}, {"drained", "ignore_errors"}}

\* pools: up to n distinct workers in page order, each with a Status text
Pools(n) ==
    {p \in UNION {[1..k -> [url : Workers,
                            status : {RemoteStatusText(f) : f \in InitFlagSets}]]
                  : k \in 0..n} :
        \A x, y \in DOMAIN p : x # y => p[x].url # p[y].url}

\* the balancer page: the banner and one anchor per worker after the first
RemotePage(banner, p) ==
    [banner |-> banner,
     anchors |-> <<NavAnchor>> \o [k \in DOMAIN p |-> p[k].url]]

\* the rows of the second table of a member page: one per worker
RemoteRows(p) ==
    [k \in DOMAIN p |->
        [c \in {"Worker URL", "Status"} |->
            IF c = "Status" THEN p[k].status ELSE p[k].url]]

\* the value a POST body gives parameter `param`
BodyValue(body, param) ==
    body[(CHOOSE k \in DOMAIN body : body[k] = param) + 2]

IsPrefix(s, t) == Len(s) <= Len(t) /\ SubSeq(t, 1, Len(s)) = s

\* a POST answered 200: the worker the body names takes the flags it gives
RemoteApply(p, body) ==
    [k \in DOMAIN p |->
        IF IsPrefix(EXPRESSION(p[k].url, 1), body)
        THEN [p[k] EXCEPT !.status =
                 RemoteStatusText({m \in ModeSet :
                                      BodyValue(body, values_mapping(m)) = "1"})]
        ELSE p[k]]

\* banner tails of the pages the invocations meet: 2.4.41, 2.2.1, and a page
\* without banner
GoodBanner == [present |-> TRUE, tail |-> <<"2", ".", "4", ".", "4", "1", " ">>]

Banners == {GoodBanner,
            [present |-> TRUE, tail |-> <<"2", ".", "2", ".", "1", " ">>],
            [present |-> FALSE, tail |-> <<>>]}

-----------------------------------------------------------------------------
(* class BalancerMember                                                    *)

BalancerURL == <<"http://", "lb:80", "/balancer-manager/">>

\* BalancerMember.__init__
BalancerMember(management_url, balancer_url) ==
    [host |-> regexp_extraction(EXPRESSION(management_url, 4)),
     management_url |-> management_url,
     protocol |-> regexp_extraction(EXPRESSION(management_url, 3)),
     port |-> regexp_extraction(EXPRESSION(management_url, 5)),
     path |-> regexp_extraction(EXPRESSION(management_url, 6)),
     balancer_url |-> balancer_url]

\* what get_member_attributes gives when it returns nothing (None)
NoAttributes ==
    [c \in {"Worker URL", "Status"} |-> IF c = "Status" THEN None ELSE NavAnchor]

\* get_member_attributes, after a 200: the first row whose text holds the
\* member's host, None (no return) when no row does
get_member_attributes(member, rows) ==
    IF \E k \in DOMAIN rows : Occurs(member.host, rows[k]["Worker URL"].host)
    THEN rows[CHOOSE k \in DOMAIN rows :
                 /\ Occurs(member.host, rows[k]["Worker URL"].host)
                 /\ \A j \in 1..(k - 1) :
                        ~Occurs(member.host, rows[j]["Worker URL"].host)]
    ELSE NoAttributes

\* mutant: the Ign pattern is never looked for
get_member_status_NoIgn(attributes) ==
    [mode \in ModeSet |->
        /\ mode # "ignore_errors"
        /\ Occurs(<<status_mapping(mode)>>, attributes["Status"])]

\* status = {mode: patt in actual_status for mode, patt in status_mapping}
get_member_status(attributes) ==
    [mode \in ModeSet |-> Occurs(<<status_mapping(mode)>>, attributes["Status"])]

\* mutant: 0 for a desired flag, 1 for the others
ValueParam_Inverted(mode, values) ==
    <<values_mapping(mode), "=", IF values[mode] THEN "0" ELSE "1">>

\* "{0}={1}".format(url_param, 1 if values[mode] else 0)
ValueParam(mode, values) ==
    <<values_mapping(mode), "=", IF values[mode] THEN "1" ELSE "0">>

RECURSIVE JoinParams(_, _)
JoinParams(modes, values) ==
    IF modes = <<>> THEN <<>>
    ELSE ValueParam(Head(modes), values) \o JoinParams(Tail(modes), values)

\* set_member_status: the request body
request_body(management_url, values) ==
    regexp_extraction(EXPRESSION(management_url, 1)) \o JoinParams(Modes, values)

-----------------------------------------------------------------------------
(* class Balancer                                                          *)

NoPage == [banner |-> [present |-> FALSE, tail |-> <<>>], anchors |-> <<>>]

\* mutant: the first anchor is taken for a member too
get_balancer_members_AllAnchors(content) ==
    [k \in 1..Len(content.anchors) |->
        BalancerMember(content.anchors[k], BalancerURL)]

\* get_balancer_members: one member per anchor after the first
get_balancer_members(content) ==
    [k \in 1..(Len(content.anchors) - 1) |->
        BalancerMember(content.anchors[k + 1], BalancerURL)]

members == get_balancer_members(page)

-----------------------------------------------------------------------------
(* How the remote answers                                                  *)

\* fault.kind = "free": every request may be answered 200 or 503 and the
\* page may carry any banner of Banners.  Otherwise the answers follow a
\* plan with at most one fault: "none", "banner" (the page carries
\* fault.banner), "get" (GET number fault.n is answered 503), "post".
FreeFault == [kind |-> "free", n |-> 0, banner |-> GoodBanner]

Gets(t) == Cardinality({k \in DOMAIN t : t[k].method = "GET"})

GetAnswers(k) ==
    IF fault.kind = "free" THEN {200, 503}
    ELSE IF fault.kind = "get" /\ fault.n = k THEN {503} ELSE {200}

PostAnswers ==
    IF fault.kind = "free" THEN {200, 503}
    ELSE IF fault.kind = "post" THEN {503} ELSE {200}

BannerAnswers == IF fault.kind = "free" THEN Banners ELSE {fault.banner}

Str(status) == IF status = 200 THEN "200" ELSE "503"

\* one entry of trace: `site` is the place in the code that issued it
Request(method, site, url, status, body, attributes) ==
    [method |-> method, site |-> site, url |-> url, status |-> status,
     body |-> body, attributes |-> attributes]

-----------------------------------------------------------------------------
(* main()                                                                  *)

NoStatus == [mode \in ModeSet |-> FALSE]

\* state lists of up to n choices; main() reads the list through len(), `in`
\* and ==, so one list stands for all its reorderings
StateLists(n) ==
    UNION {{[j \in 1..k |-> Choices[f[j]]] :
               f \in {g \in [1..k -> DOMAIN Choices] :
                         \A j \in 1..(k - 1) : g[j] <= g[j + 1]}}
           : k \in 0..n}

\* states = module.params['state'], or ['None']
states == IF params.state_given THEN params.state ELSE <<"None">>

\* mutant: `and` between the two membership tests
StatesConflict_BothNamed ==
    /\ Len(states) > 1
    /\ ("present" \in Range(states) /\ "enabled" \in Range(states))

\* (len(states) > 1) and (("present" in states) or ("enabled" in states))
StatesConflict ==
    /\ Len(states) > 1
    /\ ("present" \in Range(states) \/ "enabled" \in Range(states))

\* mutant: `absent` stands alone and drops the flags named beside it
DesiredStatus_AbsentAlone(sts) ==
    [mode \in ModeSet |->
        IF "absent" \in Range(sts) THEN mode = "disabled"
        ELSE \E k \in DOMAIN sts : mode = sts[k]]

\* the loops that fill member_status from states
DesiredStatus(sts) ==
    [mode \in ModeSet |->
        \E k \in DOMAIN sts :
            \/ mode = sts[k]
            \/ (mode = "disabled" /\ sts[k] = "absent")]

\* mutant: the write is issued only when the flags just read differ
WritesStatus_IfFlagsDiffer ==
    ~params.check_mode /\ member_status_before' # member_status

\* mutant: the write is issued in check mode too
WritesStatus_Always == TRUE

\* mutant: the member's host need only hold the requested text
HostMatches_IfContains(member) == Occurs(params.member_host, member.host)

\* `if str(member.host) == str(module.params['member_host']):`
HostMatches(member) == member.host = params.member_host

\* mutant: the state branch is taken without a state request too
StateRequested_Always == TRUE

\* `if module.params['state'] is not None:` inside the loop
StateRequested == params.state_given

\* `if not module.check_mode:` the write is issued
WritesStatus == ~params.check_mode

\* mutant: check mode takes the flags just read for the flags after
member_status_after_AsRead ==
    IF params.check_mode THEN member_status_before' ELSE member_status

\* member_status_after: the desired flags, on both branches
member_status_after == member_status

\* mutant: == for !=
StatusChanged_IfEqual(before, after) == before = after

\* mutant: the answer of the POST is not looked at
PostFailed_Never(status) == FALSE

\* `if member_status_before != member_status_after:`
StatusChanged(before, after) == before # after

\* set_member_status: `if info['status'] != 200:`
PostFailed(status) == status # 200

\* fetch_balancer_page, after a 200: the outcome of the version check
VersionCheck(content) ==
    LET apache_version == regexp_extraction(APACHE_VERSION_EXPRESSION(content))
    IN  IF apache_version # None
        THEN IF ~VersionSupported(apache_version) THEN "unsupported" ELSE "ok"
        ELSE "undetectable"

\* as_dict
as_dict(member, status, attributes) ==
    [host |-> member.host, status |-> status, protocol |-> member.protocol,
     port |-> member.port, path |-> member.path, attributes |-> attributes,
     management_url |-> member.management_url,
     balancer_url |-> member.balancer_url]

\* no connection plugin takes part in a run of the module
NoConn == [plugin |-> "none"]

runVars == <<pc, msg, page, idx, member_status, member_status_before,
             member_exists, changed, dict_status, json_output, trace>>

envVars == <<params, pool0, fault, runNo, first, pin, pout, conn>>

envVars_but_pout == <<params, pool0, fault, runNo, first, pin, conn>>

\* the state of main() when it starts
Start ==
    /\ pc = "validate"
    /\ msg = <<>>
    /\ page = NoPage
    /\ idx = 1
    /\ member_status = NoStatus
    /\ member_status_before = NoStatus
    /\ member_exists = FALSE
    /\ changed = FALSE
    /\ dict_status = NoStatus
    /\ json_output = <<>>
    /\ trace = <<>>

Hosts == {<<"a">>, <<"a", "b">>}

Params(check_modes) ==
    [balancer_vhost : {"lb:80"},
     member_host : {None} \cup Hosts,
     state_given : {TRUE},
     state : StateLists(MaxStates),
     check_mode : check_modes]
    \cup
    [balancer_vhost : {"lb:80"},
     member_host : {None} \cup Hosts,
     state_given : {FALSE},
     state : {<<>>},
     check_mode : check_modes]

Init ==
    /\ params \in Params(BOOLEAN)
    /\ pool \in Pools(MaxMembers)
    /\ pool0 = pool
    /\ fault = FreeFault
    /\ Start
    /\ runNo = 1
    /\ first = [trace |-> <<>>, pc |-> "", changed |-> FALSE]
    /\ pin = <<>>
    /\ pout = <<>>
    /\ conn = NoConn

\* the state check in main()
Validate ==
    /\ pc = "validate"
    /\ IF params.state_given /\ StatesConflict
       THEN /\ pc' = "fail_json"
            /\ msg' = <<"state present/enabled is mutually exclusive with other states!">>
       ELSE /\ pc' = "Balancer"
            /\ msg' = msg
    /\ UNCHANGED <<page, idx, member_status, member_status_before,
                   member_exists, changed, dict_status, json_output, trace>>
    /\ UNCHANGED <<pool, envVars>>

\* Balancer.__init__ with fetch_balancer_page, then main() up to its loop
fetch_balancer_page ==
    /\ pc = "Balancer"
    /\ \E status \in GetAnswers(Gets(trace) + 1), banner \in BannerAnswers :
          LET content == RemotePage(banner, pool)
              check == VersionCheck(content)
          IN  /\ trace' = Append(trace, Request("GET", "fetch_balancer_page", NavAnchor,
                                                status, <<>>, NoAttributes))
              /\ IF status # 200
                 THEN /\ pc' = "fail_json"
                      /\ msg' = <<"Could not get balancer page! HTTP status response: ",
                                  Str(status)>>
                      /\ UNCHANGED <<page, member_status>>
                 ELSE IF check = "unsupported"
                 THEN /\ pc' = "fail_json"
                      /\ msg' = <<"This module only acts on an Apache2 2.4+ instance, current Apache2 version: ">>
                                \o APACHE_VERSION_EXPRESSION(content)
                      /\ UNCHANGED <<page, member_status>>
                 ELSE IF check = "undetectable"
                 THEN /\ pc' = "fail_json"
                      /\ msg' = <<"Could not get the Apache server version from the balancer-manager">>
                      /\ UNCHANGED <<page, member_status>>
                 ELSE /\ pc' = "members"
                      /\ msg' = msg
                      /\ page' = content
                      /\ member_status' =
                            IF params.member_host = None THEN member_status
                            ELSE DesiredStatus(states)
    /\ UNCHANGED <<idx, member_status_before, member_exists, changed,
                   dict_status, json_output>>
    /\ UNCHANGED <<pool, envVars>>

\* `for member in mybalancer.members:` one step of either loop of main()
NextMember ==
    /\ pc = "members"
    /\ idx <= Len(members)
    /\ IF params.member_host = None
       THEN /\ pc' = "as_dict_status"
            /\ UNCHANGED <<idx, member_exists>>
       ELSE IF HostMatches(members[idx])
       THEN /\ member_exists' = TRUE
            /\ pc' = IF StateRequested THEN "status_before"
                     ELSE "as_dict_status"
            /\ idx' = idx
       ELSE /\ idx' = idx + 1
            /\ UNCHANGED <<pc, member_exists>>
    /\ UNCHANGED <<msg, page, member_status, member_status_before, changed,
                   dict_status, json_output, trace>>
    /\ UNCHANGED <<pool, envVars>>

\* after the loop: exit_json, or fail_json when no member matched
Finish ==
    /\ pc = "members"
    /\ idx > Len(members)
    /\ IF params.member_host = None \/ member_exists
       THEN /\ pc' = "exit_json"
            /\ msg' = msg
       ELSE /\ pc' = "fail_json"
            /\ msg' = params.member_host
                      \o <<" is not a member of the balancer ",
                           params.balancer_vhost, "!">>
    /\ UNCHANGED <<page, idx, member_status, member_status_before,
                   member_exists, changed, dict_status, json_output, trace>>
    /\ UNCHANGED <<pool, envVars>>

\* member_status_before = member.status, and in check mode the comparison
StatusBefore ==
    /\ pc = "status_before"
    /\ \E status \in GetAnswers(Gets(trace) + 1) :
          LET member == members[idx]
              attributes == get_member_attributes(member, RemoteRows(pool))
          IN  /\ trace' = Append(trace,
                     Request("GET", "member_status_before", member.management_url, status, <<>>,
                             IF status = 200 THEN attributes ELSE NoAttributes))
              /\ IF status # 200
                 THEN /\ pc' = "fail_json"
                      /\ msg' = <<"Could not get balancer_member_page, check for connectivity! ",
                                  Str(status)>>
                      /\ UNCHANGED <<member_status_before, changed>>
                 ELSE IF attributes = NoAttributes
                 THEN /\ pc' = "exception"
                      /\ msg' = <<"TypeError">>
                      /\ UNCHANGED <<member_status_before, changed>>
                 ELSE /\ member_status_before' = get_member_status(attributes)
                      /\ msg' = msg
                      /\ IF WritesStatus
                         THEN /\ pc' = "set_member_status"
                              /\ changed' = changed
                         ELSE /\ pc' = "as_dict_status"
                              /\ changed' =
                                    (changed \/ StatusChanged(member_status_before',
                                                          member_status_after))
    /\ UNCHANGED <<page, idx, member_status, member_exists, dict_status,
                   json_output>>
    /\ UNCHANGED <<pool, envVars>>

\* member.status = member_status, and the comparison that follows.  The
\* remote applies a POST it answers 200 and no other.
set_member_status ==
    /\ pc = "set_member_status"
    /\ \E status \in PostAnswers :
          LET member == members[idx]
              body == request_body(member.management_url, member_status)
          IN  /\ trace' = Append(trace,
                     Request("POST", "set_member_status", member.management_url,
                             status, body, NoAttributes))
              /\ pool' = IF status = 200 THEN RemoteApply(pool, body) ELSE pool
              /\ IF PostFailed(status)
                 THEN \* "..." + self.host + " " + info['status'] adds an int to a str
                      /\ pc' = "exception"
                      /\ msg' = <<"TypeError">>
                      /\ UNCHANGED changed
                 ELSE /\ pc' = "as_dict_status"
                      /\ msg' = msg
                      /\ changed' =
                            (changed \/ StatusChanged(member_status_before,
                                                      member_status_after))
    /\ UNCHANGED <<page, idx, member_status, member_status_before,
                   member_exists, dict_status, json_output>>
    /\ UNCHANGED envVars

\* as_dict: "status": self.status
AsDictStatus ==
    /\ pc = "as_dict_status"
    /\ \E status \in GetAnswers(Gets(trace) + 1) :
          LET member == members[idx]
              attributes == get_member_attributes(member, RemoteRows(pool))
          IN  /\ trace' = Append(trace,
                     Request("GET", "as_dict_status", member.management_url, status, <<>>,
                             IF status = 200 THEN attributes ELSE NoAttributes))
              /\ IF status # 200
                 THEN /\ pc' = "fail_json"
                      /\ msg' = <<"Could not get balancer_member_page, check for connectivity! ",
                                  Str(status)>>
                      /\ UNCHANGED dict_status
                 ELSE IF attributes = NoAttributes
                 THEN /\ pc' = "exception"
                      /\ msg' = <<"TypeError">>
                      /\ UNCHANGED dict_status
                 ELSE /\ dict_status' = get_member_status(attributes)
                      /\ pc' = "as_dict_attributes"
                      /\ msg' = msg
    /\ UNCHANGED <<page, idx, member_status, member_status_before,
                   member_exists, changed, json_output>>
    /\ UNCHANGED <<pool, envVars>>

\* as_dict: "attributes": self.attributes, and the snapshot is kept
AsDictAttributes ==
    /\ pc = "as_dict_attributes"
    /\ \E status \in GetAnswers(Gets(trace) + 1) :
          LET member == members[idx]
              attributes == get_member_attributes(member, RemoteRows(pool))
          IN  /\ trace' = Append(trace,
                     Request("GET", "as_dict_attributes", member.management_url, status, <<>>,
                             IF status = 200 THEN attributes ELSE NoAttributes))
              /\ IF status # 200
                 THEN /\ pc' = "fail_json"
                      /\ msg' = <<"Could not get balancer_member_page, check for connectivity! ",
                                  Str(status)>>
                      /\ UNCHANGED <<idx, json_output>>
                 ELSE /\ json_output' =
                            IF params.member_host = None
                            THEN Append(json_output,
                                        as_dict(member, dict_status, attributes))
                            ELSE <<as_dict(member, dict_status, attributes)>>
                      /\ idx' = idx + 1
                      /\ pc' = "members"
                      /\ msg' = msg
    /\ UNCHANGED <<page, member_status, member_status_before, member_exists,
                   changed, dict_status>>
    /\ UNCHANGED <<pool, envVars>>

Run ==
    \/ Validate
    \/ fetch_balancer_page
    \/ NextMember
    \/ Finish
    \/ StatusBefore
    \/ set_member_status
    \/ AsDictStatus
    \/ AsDictAttributes

Next == Run

Spec == Init /\ [][Next]_vars

-----------------------------------------------------------------------------
(* A check-mode run and a normal run of the same request                   *)

\* the plans of answers both runs of a pair meet: at most one fault
Plans ==
    {[kind |-> "none", n |-> 0, banner |-> GoodBanner],
     [kind |-> "post", n |-> 0, banner |-> GoodBanner]}
    \cup {[kind |-> "banner", n |-> 0, banner |-> b] : b \in Banners \ {GoodBanner}}
    \cup {[kind |-> "get", n |-> k, banner |-> GoodBanner] : k \in 1..MaxFaultIdx}

Terminated == pc \in {"exit_json", "fail_json", "exception"}

InitPair ==
    /\ params \in Params({TRUE})
    /\ pool \in Pools(PairMaxMembers)
    /\ pool0 = pool
    /\ fault \in Plans
    /\ Start
    /\ runNo = 1
    /\ first = [trace |-> <<>>, pc |-> "", changed |-> FALSE]
    /\ pin = <<>>
    /\ pout = <<>>
    /\ conn = NoConn

\* the check-mode run has ended: the same request is run again without
\* check mode, against the pool as it was and under the same plan
Rerun ==
    /\ runNo = 1
    /\ Terminated
    /\ first' = [trace |-> trace, pc |-> pc, changed |-> changed]
    /\ runNo' = 2
    /\ params' = [params EXCEPT !.check_mode = FALSE]
    /\ pool' = pool0
    /\ pc' = "validate"
    /\ msg' = <<>>
    /\ page' = NoPage
    /\ idx' = 1
    /\ member_status' = NoStatus
    /\ member_status_before' = NoStatus
    /\ member_exists' = FALSE
    /\ changed' = FALSE
    /\ dict_status' = NoStatus
    /\ json_output' = <<>>
    /\ trace' = <<>>
    /\ UNCHANGED <<pool0, fault, pin, pout, conn>>

NextPair == Run \/ Rerun

SpecPair == InitPair /\ [][NextPair]_vars

-----------------------------------------------------------------------------
(* The pure functions, each applied to every input of a bounded set        *)

BannerChars == {"1", "2", "4", ".", " "}

PureInputs ==
    {[fn |-> "fetch_balancer_page",
      content |-> RemotePage([present |-> TRUE, tail |-> t], <<>>),
      management_url |-> NavAnchor,
      values |-> NoStatus] : t \in SeqsUpTo(BannerChars, MaxBannerLen)}
    \cup
    {[fn |-> "set_member_status",
      content |-> NoPage,
      management_url |-> u,
      values |-> v] : u \in Workers, v \in [ModeSet -> BOOLEAN]}

InitPure ==
    /\ params \in Params({FALSE})
    /\ params.member_host = None
    /\ ~params.state_given
    /\ pool = <<>>
    /\ pool0 = pool
    /\ fault = FreeFault
    /\ Start
    /\ runNo = 1
    /\ first = [trace |-> <<>>, pc |-> "", changed |-> FALSE]
    /\ pin \in PureInputs
    /\ pout = <<>>
    /\ conn = NoConn

\* fetch_balancer_page on a page answered 200: the version check alone
ApplyVersionCheck ==
    /\ pc = "validate"
    /\ pin.fn = "fetch_balancer_page"
    /\ pout' = <<VersionCheck(pin.content)>>
    /\ pc' = "applied"
    /\ UNCHANGED <<msg, page, idx, member_status, member_status_before,
                   member_exists, changed, dict_status, json_output, trace>>
    /\ UNCHANGED <<pool, envVars_but_pout>>

\* set_member_status: the request body alone
ApplyRequestBody ==
    /\ pc = "validate"
    /\ pin.fn = "set_member_status"
    /\ pout' = request_body(pin.management_url, pin.values)
    /\ pc' = "applied"
    /\ UNCHANGED <<msg, page, idx, member_status, member_status_before,
                   member_exists, changed, dict_status, json_output, trace>>
    /\ UNCHANGED <<pool, envVars_but_pout>>

NextPure == ApplyVersionCheck \/ ApplyRequestBody

SpecPure == InitPure /\ [][NextPure]_vars

-----------------------------------------------------------------------------
(* One run beside another actor on the same balancer                       *)

\* every request is answered 200; fault.n counts the other actor's changes
OtherFault == [kind |-> "other", n |-> 0, banner |-> GoodBanner]

InitRace ==
    /\ params \in {p \in Params({FALSE}) : Len(p.state) <= 1}
    /\ pool \in Pools(RaceMaxMembers)
    /\ pool0 = pool
    /\ fault = OtherFault
    /\ Start
    /\ runNo = 1
    /\ first = [trace |-> <<>>, pc |-> "", changed |-> FALSE]
    /\ pin = <<>>
    /\ pout = <<>>
    /\ conn = NoConn

\* an operator, or another invocation, changes the flags of one worker
\* through the balancer-manager while this run is under way
OtherActor ==
    /\ fault.kind = "other"
    /\ fault.n < MaxOther
    /\ ~Terminated
    /\ \E k \in DOMAIN pool, f \in InitFlagSets :
          /\ pool[k].status # RemoteStatusText(f)
          /\ pool' = [pool EXCEPT ![k].status = RemoteStatusText(f)]
    /\ fault' = [fault EXCEPT !.n = @ + 1]
    /\ UNCHANGED runVars
    /\ UNCHANGED <<params, pool0, runNo, first, pin, pout, conn>>

NextRace == Run \/ OtherActor

SpecRace == InitRace /\ [][NextRace]_vars

-----------------------------------------------------------------------------
(* The connection plugins pct (local pct) and pct-remote (pct over SSH)    *)

pct_cmd == "/usr/sbin/pct"      \* get_bin_path("pct")
vmid == "100"                   \* get_option('vmid')
in_path == "/src/f.txt"
out_path == "/dst/f.txt"
basename == "f.txt"             \* os.path.basename(in_path)

\* f'/tmp/ansible_pct_{str(uuid.uuid4()).replace('-', '')[:6]}'
TempDirs == {"/tmp/ansible_pct_1f2e3d", "/tmp/ansible_pct_a0b1c2"}

Containers == {"running", "stopped", "missing"}

\* what a command running inside the container may write to its stderr
CommandStderrs ==
    {<<>>,
     <<"warning">>,
     <<"unit x ", "not running!">>,
     <<"id: user x ", "does not exist">>}

\* pct exec as the Proxmox host answers it: the command runs only in a
\* running container, else pct itself reports on stderr
ExecOutcomes(container) ==
    IF container = "running"
    THEN [ran : {TRUE}, rc : {0, 1}, stdout : {<<"out">>}, stderr : CommandStderrs]
    ELSE IF container = "stopped"
    THEN {[ran |-> FALSE, rc |-> 255, stdout |-> <<>>,
           stderr |-> <<"container '", vmid, "' ", "not running!">>]}
    ELSE {[ran |-> FALSE, rc |-> 2, stdout |-> <<>>,
           stderr |-> <<"Configuration file 'lxc/", vmid, ".conf' ", "does not exist">>]}

\* exit codes of pct push / pct pull: 0 needs a running container
TransferRcs(container) ==
    IF container = "running" THEN {0, 1}
    ELSE IF container = "stopped" THEN {255} ELSE {2}

\* one entry of conn.cmds: a process started locally (popen), a command run
\* on the Proxmox host over SSH (ssh_exec) or an SFTP transfer
Issued(via, cmd, src, dst, rc, raised) ==
    [via |-> via, cmd |-> cmd, src |-> src, dst |-> dst, rc |-> rc,
     raised |-> raised]

NoResult == [kind |-> "none", exc |-> "", rc |-> 0, stdout |-> <<>>, stderr |-> <<>>]

Return(rc, stdout, stderr) ==
    [kind |-> "return", exc |-> "", rc |-> rc, stdout |-> stdout, stderr |-> stderr]

Raise(exc) ==
    [kind |-> "raise", exc |-> exc, rc |-> 0, stdout |-> <<>>, stderr |-> <<>>]

ConnOps ==
    [plugin : {"pct"}, op : {"exec_command", "put_file", "fetch_file"},
     container : Containers, is_file : BOOLEAN, temp_dir : {""}]
    \cup
    [plugin : {"pct-remote"}, op : {"put_file", "fetch_file"},
     container : Containers, is_file : {TRUE}, temp_dir : TempDirs]

ConnStart(o) ==
    [plugin |-> o.plugin, op |-> o.op, container |-> o.container,
     is_file |-> o.is_file, temp_dir |-> o.temp_dir,
     pc |-> "start", step |-> 1, cmds |-> <<>>, pending |-> "",
     ran |-> FALSE, result |-> NoResult]

InitPct ==
    /\ params \in Params({FALSE})
    /\ params.member_host = None
    /\ ~params.state_given
    /\ pool = <<>>
    /\ pool0 = pool
    /\ fault = FreeFault
    /\ Start
    /\ runNo = 1
    /\ first = [trace |-> <<>>, pc |-> "", changed |-> FALSE]
    /\ pin = <<>>
    /\ pout = <<>>
    /\ conn \in {ConnStart(o) : o \in ConnOps}

\* pct.py, exec_command
pct_exec_command ==
    /\ conn.plugin = "pct"
    /\ conn.op = "exec_command"
    /\ conn.pc = "start"
    /\ \E o \in ExecOutcomes(conn.container) :
          conn' = [conn EXCEPT
             !.cmds = Append(@, Issued("popen",
                          <<pct_cmd, "exec", vmid, "--", "/bin/sh", "-c", "cmd">>,
                          <<>>, <<>>, o.rc, FALSE)),
             !.ran = o.ran,
             !.pc = "done",
             !.result =
                 IF Occurs(<<"not running!">>, o.stderr)
                 THEN Raise("AnsibleConnectionFailure: instance not running")
                 ELSE IF Occurs(<<"does not exist">>, o.stderr)
                 THEN Raise("AnsibleConnectionFailure: instance not found")
                 ELSE Return(o.rc, o.stdout, o.stderr)]
    /\ UNCHANGED <<runVars, params, pool, pool0, fault, runNo, first, pin, pout>>

\* pct.py, put_file
pct_put_file ==
    /\ conn.plugin = "pct"
    /\ conn.op = "put_file"
    /\ conn.pc = "start"
    /\ IF ~conn.is_file
       THEN conn' = [conn EXCEPT !.pc = "done",
                                 !.result = Raise("AnsibleFileNotFound")]
       ELSE \E rc \in TransferRcs(conn.container) :
               conn' = [conn EXCEPT
                  !.cmds = Append(@, Issued("popen",
                               <<pct_cmd, "push", vmid, in_path, out_path>>,
                               <<>>, <<>>, rc, FALSE)),
                  !.pc = "done",
                  !.result = Return(0, <<>>, <<>>)]
    /\ UNCHANGED <<runVars, params, pool, pool0, fault, runNo, first, pin, pout>>

\* pct.py, fetch_file
pct_fetch_file ==
    /\ conn.plugin = "pct"
    /\ conn.op = "fetch_file"
    /\ conn.pc = "start"
    /\ \E rc \in TransferRcs(conn.container) :
          conn' = [conn EXCEPT
             !.cmds = Append(@, Issued("popen",
                          <<pct_cmd, "pull", vmid, in_path, out_path>>,
                          <<>>, <<>>, rc, FALSE)),
             !.pc = "done",
             !.result = Return(0, <<>>, <<>>)]
    /\ UNCHANGED <<runVars, params, pool, pool0, fault, runNo, first, pin, pout>>

\* mutant: the container is fed before the file has reached the host
TrySteps_PctFirst(op) == <<"mkdir", "pct", "sftp">>

\* pct-remote.py: the statements of the try block of put_file / fetch_file
TrySteps(op) ==
    IF op = "put_file" THEN <<"mkdir", "sftp", "pct">>
    ELSE <<"mkdir", "pct", "sftp">>

\* where control goes after a statement of the try block
AfterStep(raised) ==
    IF raised THEN "except"
    ELSE IF conn.step = Len(TrySteps(conn.op)) THEN "finally" ELSE "try"

InTry(step) ==
    /\ conn.plugin = "pct-remote"
    /\ conn.pc \in {"start", "try"}
    /\ TrySteps(conn.op)[conn.step] = step

\* an SSH exec_command returns the exit code, or raises when the channel fails
SshOutcomes(rcs) ==
    [rc : rcs, raised : {FALSE}] \cup {[rc |-> 0, raised |-> TRUE]}

\* super().exec_command(f'mkdir -p {temp_dir}')
pct_remote_mkdir ==
    /\ InTry("mkdir")
    /\ \E o \in SshOutcomes({0, 1}) :
          conn' = [conn EXCEPT
             !.cmds = Append(@, Issued("ssh_exec", <<"mkdir -p ", conn.temp_dir>>,
                                       <<>>, <<>>, o.rc, o.raised)),
             !.step = @ + 1,
             !.pc = AfterStep(o.raised)]
    /\ UNCHANGED <<runVars, params, pool, pool0, fault, runNo, first, pin, pout>>

\* super().put_file(in_path, temp_dir) / super().fetch_file(temp_file_path, out_path)
pct_remote_sftp ==
    /\ InTry("sftp")
    /\ \E raised \in BOOLEAN :
          conn' = [conn EXCEPT
             !.cmds = Append(@,
                 IF conn.op = "put_file"
                 THEN Issued("sftp_put", <<>>, <<in_path>>, <<conn.temp_dir>>,
                             0, raised)
                 ELSE Issued("sftp_fetch", <<>>,
                             <<conn.temp_dir, "/", basename>>, <<out_path>>,
                             0, raised)),
             !.step = @ + 1,
             !.pc = AfterStep(raised)]
    /\ UNCHANGED <<runVars, params, pool, pool0, fault, runNo, first, pin, pout>>

\* super().exec_command(f'{pct} push {vmid} {temp_file_path} {out_path}') /
\* super().exec_command(f'{pct} pull {vmid} {in_path} {temp_dir}')
pct_remote_pct ==
    /\ InTry("pct")
    /\ \E o \in SshOutcomes(TransferRcs(conn.container)) :
          conn' = [conn EXCEPT
             !.cmds = Append(@,
                 IF conn.op = "put_file"
                 THEN Issued("ssh_exec",
                             <<pct_cmd, " push ", vmid, " ", conn.temp_dir, "/",
                               basename, " ", out_path>>,
                             <<>>, <<>>, o.rc, o.raised)
                 ELSE Issued("ssh_exec",
                             <<pct_cmd, " pull ", vmid, " ", in_path, " ",
                               conn.temp_dir>>,
                             <<>>, <<>>, o.rc, o.raised)),
             !.step = @ + 1,
             !.pc = AfterStep(o.raised)]
    /\ UNCHANGED <<runVars, params, pool, pool0, fault, runNo, first, pin, pout>>

\* except Exception as e: raise AnsibleError("...%s!\n%s" % out_path, e)
\* the format has two places and is given one value
pct_remote_except ==
    /\ conn.plugin = "pct-remote"
    /\ conn.pc = "except"
    /\ conn' = [conn EXCEPT !.pending = "TypeError", !.pc = "finally"]
    /\ UNCHANGED <<runVars, params, pool, pool0, fault, runNo, first, pin, pout>>

\* finally: super().exec_command(f'rm -rf {temp_dir}')
pct_remote_finally ==
    /\ conn.plugin = "pct-remote"
    /\ conn.pc = "finally"
    /\ \E o \in SshOutcomes({0, 1}) :
          conn' = [conn EXCEPT
             !.cmds = Append(@, Issued("ssh_exec", <<"rm -rf ", conn.temp_dir>>,
                                       <<>>, <<>>, o.rc, o.raised)),
             !.pc = "done",
             !.result = IF o.raised THEN Raise("AnsibleError")
                        ELSE IF conn.pending # "" THEN Raise(conn.pending)
                        ELSE Return(0, <<>>, <<>>)]
    /\ UNCHANGED <<runVars, params, pool, pool0, fault, runNo, first, pin, pout>>

NextPct ==
    \/ pct_exec_command
    \/ pct_put_file
    \/ pct_fetch_file
    \/ pct_remote_mkdir
    \/ pct_remote_sftp
    \/ pct_remote_pct
    \/ pct_remote_except
    \/ pct_remote_finally

SpecPct == InitPct /\ [][NextPct]_vars

-----------------------------------------------------------------------------
(* Properties                                                              *)

Failed == pc \in {"fail_json", "exception"}

Posts == {k \in DOMAIN trace : trace[k].method = "POST"}

AcceptedPosts == {k \in Posts : trace[k].status = 200}

BalancerGets == {k \in DOMAIN trace : trace[k].site = "fetch_balancer_page"}

\* the flags a POST body carries
BodyFlags(body) ==
    [mode \in ModeSet |-> BodyValue(body, values_mapping(mode)) = "1"]

\* the flags a Status text shows
TextFlags(text) ==
    [mode \in ModeSet |->
        \E k \in DOMAIN text :
            text[k] = (CASE mode = "disabled" -> "Dis"
                         [] mode = "drained" -> "Drn"
                         [] mode = "hot_standby" -> "Stby"
                         [] mode = "ignore_errors" -> "Ign")]

ValidationMsg ==
    <<"state present/enabled is mutually exclusive with other states!">>

\* C1, as claimed: a POST is issued only if the desired flags differ from
\* the flags read from the member just before it.
C1_PostOnlyIfFlagsDiffer ==
    \A k \in Posts :
        TextFlags(trace[k - 1].attributes["Status"]) # BodyFlags(trace[k].body)

\* C1, amended: with a state request for a targeted member and check mode
\* off, the POST follows every successful read of the member's flags, equal
\* to the desired flags or not; it carries the desired flags, goes to the
\* member just read, and is issued in no other case.
C1_PostAfterEveryReadUnlessCheckMode ==
    /\ \A k \in Posts :
          /\ ~params.check_mode
          /\ params.state_given
          /\ k > 1
          /\ trace[k - 1].site = "member_status_before"
          /\ trace[k - 1].status = 200
          /\ trace[k - 1].url = trace[k].url
          /\ trace[k].url.host = params.member_host
          /\ BodyFlags(trace[k].body) = member_status
    /\ \A k \in DOMAIN trace :
          (/\ trace[k].site = "member_status_before"
           /\ trace[k].status = 200
           /\ ~params.check_mode
           /\ (k < Len(trace) \/ pc # "set_member_status"))
          => (k + 1 \in Posts)

\* C1, witness: a POST answered 200 whose flags equal the flags just read
C1_Witness ==
    /\ pc = "as_dict_status"
    /\ Len(trace) \in AcceptedPosts
    /\ TextFlags(trace[Len(trace) - 1].attributes["Status"])
           = BodyFlags(trace[Len(trace)].body)

\* the state list names `present` or `enabled` together with another state
PresentWithOther ==
    /\ params.state_given
    /\ \E j, k \in DOMAIN params.state :
          /\ params.state[j] \in {"present", "enabled"}
          /\ params.state[k] # params.state[j]

\* C2: a state list with `present` or `enabled` and another state ends in
\* the validation failure, and no HTTP request is issued before it.
C2_ConflictFailsBeforeAnyRequest ==
    PresentWithOther =>
        /\ trace = <<>>
        /\ pc \in {"validate", "fail_json"}
        /\ pc = "fail_json" => msg = ValidationMsg

C2_Witness ==
    /\ PresentWithOther
    /\ pc = "fail_json"
    /\ msg = ValidationMsg
    /\ trace = <<>>

\* C3, as claimed: a state list with `absent` and another state is rejected
\* by the validation, as one with `present` and another state is.
C3_AbsentWithOtherRejected ==
    (/\ params.state_given
     /\ \E j, k \in DOMAIN params.state :
           /\ params.state[j] = "absent"
           /\ params.state[k] # "absent")
    => /\ pc \in {"validate", "fail_json"}
       /\ pc = "fail_json" => msg = ValidationMsg

\* C4: in check mode no POST is ever issued and the remote flags stay as
\* they were, while a GET answered other than 200, or a page that fails the
\* version check, still ends the run in fail_json.
C4_CheckModeNeverWrites ==
    params.check_mode =>
        /\ Posts = {}
        /\ pool = pool0
        /\ \A k \in DOMAIN trace :
              trace[k].status # 200 => (k = Len(trace) /\ pc = "fail_json")
        /\ (BalancerGets # {} /\ page = NoPage) => pc = "fail_json"

\* C4, witness: a check-mode run that reports a change it has not written
C4_Witness ==
    /\ params.check_mode
    /\ pc = "exit_json"
    /\ changed
    /\ Posts = {}
    /\ pool = pool0

\* the GET requests of a trace, in order, without their answers
GetRequests(t) ==
    LET g == SelectSeq(t, LAMBDA r : r.method = "GET")
    IN  [k \in DOMAIN g |-> <<g[k].site, g[k].url>>]

\* C5, as claimed: the check-mode run and the normal run of one request
\* against one pool issue the same GETs and report the same `changed`; only
\* the POST is added.
C5_SameGetsSameChanged ==
    (runNo = 2 /\ Terminated) =>
        /\ GetRequests(trace) = GetRequests(first.trace)
        /\ pc = first.pc
        /\ changed = first.changed

\* C5, amended: they do whenever every POST of the normal run is answered
\* 200.  When a POST is not, the normal run ends there in failure, having
\* issued a prefix of the check-mode run's GETs.
C5_SameGetsSameChangedIfPostAccepted ==
    (runNo = 2 /\ Terminated) =>
        /\ \A k \in DOMAIN first.trace : first.trace[k].method = "GET"
        /\ IF Posts = AcceptedPosts
           THEN /\ GetRequests(trace) = GetRequests(first.trace)
                /\ pc = first.pc
                /\ changed = first.changed
           ELSE /\ Failed
                /\ trace[Len(trace)].method = "POST"
                /\ IsPrefix(GetRequests(trace), GetRequests(first.trace))

C5_Witness ==
    /\ runNo = 2
    /\ pc = "exit_json"
    /\ first.pc = "exit_json"
    /\ AcceptedPosts # {}
    /\ changed
    /\ first.changed

\* the reads of the flags before the write, among the requests issued
ReadsBefore ==
    {k \in DOMAIN trace :
        trace[k].site = "member_status_before" /\ trace[k].status = 200}

\* C6: for a targeted member with a state request, the reported `changed`
\* is false when the desired flags equal the flags read before the write
\* and true when they differ; [absent] on a member read as not disabled
\* reports changed = true.
C6_ChangedIffFlagsDiffer ==
    (pc = "exit_json" /\ params.member_host # None /\ params.state_given) =>
        /\ changed =
              (\E k \in ReadsBefore :
                  TextFlags(trace[k].attributes["Status"]) # member_status)
        /\ (/\ params.state = <<"absent">>
            /\ \E k \in ReadsBefore :
                  ~TextFlags(trace[k].attributes["Status"])["disabled"])
           => changed

C6_Witness ==
    /\ pc = "exit_json"
    /\ params.state_given
    /\ params.state = <<"absent">>
    /\ Cardinality(ReadsBefore) = 1
    /\ \E k \in ReadsBefore :
          ~TextFlags(trace[k].attributes["Status"])["disabled"]
    /\ changed

\* C7, as claimed: a run that ends in failure has issued no request after
\* the first failing step, and no POST of it has been accepted.
C7_FailureLeavesNoWrite ==
    Failed =>
        /\ \A k \in DOMAIN trace : trace[k].status # 200 => k = Len(trace)
        /\ AcceptedPosts = {}

\* C7, amended: every error is terminal: a request answered other than 200
\* is the last one issued and ends the run.  A run that fails before or in
\* its first POST leaves the remote flags as they were; a run that fails
\* after an accepted POST fails in a later request answered other than 200
\* (a re-read for the snapshot, or the read or write of a further member of
\* the same host), and the accepted write stays applied.
C7_FailureIsTerminal ==
    /\ \A k \in DOMAIN trace :
          trace[k].status # 200 => (k = Len(trace) /\ Failed)
    /\ Failed =>
          /\ AcceptedPosts = {} => pool = pool0
          /\ AcceptedPosts # {} =>
                /\ trace[Len(trace)].status # 200
                /\ \A k \in AcceptedPosts :
                      pool[CHOOSE j \in DOMAIN pool : pool[j].url = trace[k].url].status
                          = RemoteStatusText({m \in ModeSet : member_status[m]})
                /\ \A k \in AcceptedPosts : k < Len(trace)

\* C7, witness: a failed run whose write the remote has applied
C7_Witness ==
    /\ pc = "fail_json"
    /\ AcceptedPosts # {}
    /\ pool # pool0

\* C8, as claimed: every invocation fetches the balancer page with exactly
\* one GET.
C8_ExactlyOnePageGet ==
    Terminated => Cardinality(BalancerGets) = 1

\* C8, amended: every invocation that passes the state validation fetches
\* the balancer page with exactly one GET, the first request issued; a
\* request to a member management URL is issued only after that GET was
\* answered 200 and the banner passed the version check, and only to a URL
\* listed in that one page.
C8_OnePageGetFirst ==
    /\ BalancerGets = (IF pc \in {"validate", "Balancer"} \/ msg = ValidationMsg
                       THEN {} ELSE {1})
    /\ \A k \in DOMAIN trace \ BalancerGets :
          /\ trace[1].status = 200
          /\ page # NoPage
          /\ VersionCheck(page) = "ok"
          /\ \E j \in 2..Len(page.anchors) : page.anchors[j] = trace[k].url

C8_Witness ==
    /\ pc = "exit_json"
    /\ Len(trace) > 3
    /\ BalancerGets = {1}

\* the banner version has major.minor 2.4
MajorMinorIs24(version) ==
    /\ Len(version) >= 3
    /\ SubSeq(version, 1, 3) = <<"2", ".", "4">>
    /\ (Len(version) = 3 \/ version[4] = ".")

\* C9, as claimed: the page is accepted only when the banner version has
\* major.minor 2.4; without a version it fails as undetectable, and with
\* any other major.minor as unsupported.
C9_OnlyVersion24Accepted ==
    (pc = "applied" /\ pin.fn = "fetch_balancer_page") =>
        LET version == APACHE_VERSION_EXPRESSION(pin.content)
        IN  /\ pout = <<"ok">> => MajorMinorIs24(version)
            /\ version = <<>> => pout = <<"undetectable">>
            /\ (version # <<>> /\ ~MajorMinorIs24(version))
               => pout = <<"unsupported">>

Bit(b) == IF b THEN "1" ELSE "0"

\* C10: for each of the 16 desired flag combinations the POST body is the
\* first capture group of the management URL followed by w_status_D,
\* w_status_N, w_status_H, w_status_I in this order, each 1 when its flag
\* (disabled, drained, hot_standby, ignore_errors) is desired and 0 when not.
C10_BodyHasFourParamsInOrder ==
    (pc = "applied" /\ pin.fn = "set_member_status") =>
        pout = EXPRESSION(pin.management_url, 1)
               \o <<"&w_status_D", "=", Bit(pin.values["disabled"]),
                    "&w_status_N", "=", Bit(pin.values["drained"]),
                    "&w_status_H", "=", Bit(pin.values["hot_standby"]),
                    "&w_status_I", "=", Bit(pin.values["ignore_errors"])>>

C10_Witness ==
    /\ pc = "applied"
    /\ pin.fn = "set_member_status"
    /\ pin.values["disabled"]
    /\ ~pin.values["drained"]
    /\ pin.values["ignore_errors"]
    /\ Len(pout) > 12

NoSuchMember ==
    /\ params.member_host # None
    /\ \A k \in DOMAIN pool0 : pool0[k].url.host # params.member_host

\* C12: with member_host given and no member of the page on exactly that
\* host, main() ends in a failure that names the requested host and the
\* balancer vhost, having issued no POST and no GET of a member's status.
C12_UnknownHostFails ==
    NoSuchMember =>
        /\ pc # "exit_json"
        /\ \A k \in DOMAIN trace : trace[k].site = "fetch_balancer_page"
        /\ (Terminated /\ page # NoPage) =>
              /\ pc = "fail_json"
              /\ msg = params.member_host
                       \o <<" is not a member of the balancer ">>
                       \o <<params.balancer_vhost>> \o <<"!">>

\* C12, witness: host `a` asked of a pool whose only worker is on host `ab`
C12_Witness ==
    /\ NoSuchMember
    /\ Len(pool0) = 1
    /\ params.member_host = <<"a">>
    /\ pc = "fail_json"
    /\ page # NoPage

\* C13, as claimed: in a run that writes, the snapshot returned is built
\* from GETs issued after the POST, so that its status shows the desired
\* flags when the remote applies the POST and nobody else changes the pool.
C13_SnapshotShowsDesiredFlags ==
    (/\ pc = "exit_json"
     /\ ~params.check_mode
     /\ AcceptedPosts # {})
    => /\ \A k \in DOMAIN trace :
             trace[k].site \in {"as_dict_status", "as_dict_attributes"}
             => \E j \in AcceptedPosts : j < k /\ trace[j].url = trace[k].url
       /\ json_output[1].status = member_status

\* C15: without a state (targeted read) and without member_host (bulk
\* read, with or without a state) main() issues no POST and reports
\* changed = false, with the one snapshot of the member, or in bulk mode one
\* snapshot per member in page order.
C15_ReadOnlyModesNeverWrite ==
    (~params.state_given \/ params.member_host = None) =>
        /\ Posts = {}
        /\ pool = pool0
        /\ ~changed
        /\ (pc = "exit_json" /\ params.member_host = None) =>
              /\ Len(json_output) = Len(pool0)
              /\ \A k \in DOMAIN json_output :
                    json_output[k].management_url = pool0[k].url
        /\ (pc = "exit_json" /\ params.member_host # None) =>
              /\ Len(json_output) = 1
              /\ json_output[1].host = params.member_host

\* C15, witness: a bulk read that was given a state list all the same
C15_Witness ==
    /\ pc = "exit_json"
    /\ params.member_host = None
    /\ params.state = <<"disabled">>
    /\ Len(json_output) = 2
    /\ ~changed

\* C16, as claimed: a POST answered other than 200 ends the invocation in
\* fail_json with the 'Could not set the member status' message.
C16_FailedPostEndsInFailJson ==
    (\E k \in Posts : trace[k].status # 200) =>
        /\ pc = "fail_json"
        /\ Len(msg) > 0
        /\ msg[1] = "Could not set the member status! "

\* C20, as claimed: a targeted invocation issues at most one POST, and the
\* snapshot it reports is the one of the member written.
C20_AtMostOnePost ==
    /\ Cardinality(Posts) <= 1
    /\ (pc = "exit_json" /\ Posts # {}) =>
          \A k \in Posts : json_output[1].management_url = trace[k].url

\* the snapshots returned so far
Snapshots == {json_output[k] : k \in DOMAIN json_output}

\* C14, as claimed: in every snapshot as_dict returns, status is the
\* projection of the Status text of that snapshot's own attributes, also
\* while another actor changes the member's flags.
C14_StatusProjectsOwnAttributes ==
    \A s \in Snapshots : s.status = TextFlags(s.attributes["Status"])

\* C14, amended: the status of a snapshot is the projection of the Status
\* text answered to the first GET of as_dict and its attributes are the
\* row answered to the second GET; the two agree when nobody changed the
\* member's flags during the run.
C14_StatusProjectsFirstRead ==
    /\ \A s \in Snapshots :
          \E k \in DOMAIN trace :
             /\ k > 1
             /\ trace[k].site = "as_dict_attributes"
             /\ trace[k - 1].site = "as_dict_status"
             /\ trace[k].url = s.management_url
             /\ s.attributes = trace[k].attributes
             /\ s.status = TextFlags(trace[k - 1].attributes["Status"])
    /\ fault.n = 0 => C14_StatusProjectsOwnAttributes

\* C14, witness: a snapshot taken while the other actor changed the flags,
\* whose status disagrees with its own attributes
C14_Witness ==
    /\ pc = "exit_json"
    /\ fault.n = 1
    /\ \E s \in Snapshots :
          /\ s.status["ignore_errors"]
          /\ ~TextFlags(s.attributes["Status"])["ignore_errors"]

\* what an entry of conn.cmds is, read off the command itself
Kind(c) ==
    IF c.via # "ssh_exec" THEN c.via
    ELSE IF c.cmd[1] = "mkdir -p " THEN "mkdir"
    ELSE IF c.cmd[1] = "rm -rf " THEN "rm"
    ELSE IF c.cmd[2] = " push " THEN "push"
    ELSE "pull"

ExpectedOrder ==
    IF conn.op = "put_file" THEN <<"mkdir", "sftp_put", "push", "rm">>
    ELSE <<"mkdir", "pull", "sftp_fetch", "rm">>

\* C17: put_file and fetch_file of pct-remote issue `mkdir -p` of the
\* staging directory as their first remote command and `rm -rf` of the same
\* directory as their last, whether the steps between succeed or one of
\* them fails; put_file goes mkdir, SFTP upload, pct push, rm and
\* fetch_file goes mkdir, pct pull, SFTP download, rm.
C17_StagingDirFirstAndLast ==
    conn.plugin = "pct-remote" =>
        LET n == Len(conn.cmds)
        IN  /\ n >= 1 =>
                 /\ conn.cmds[1].via = "ssh_exec"
                 /\ conn.cmds[1].cmd = <<"mkdir -p ", conn.temp_dir>>
            /\ conn.pc = "done" =>
                 /\ n >= 2
                 /\ conn.cmds[n].via = "ssh_exec"
                 /\ conn.cmds[n].cmd = <<"rm -rf ", conn.temp_dir>>
                 /\ (\A k \in 1..(n - 1) : ~conn.cmds[k].raised) => n = 4
            /\ \A k \in 1..n :
                 /\ Kind(conn.cmds[k]) = "rm" <=> (k = n /\ conn.pc = "done")
                 /\ Kind(conn.cmds[k]) # "rm" => Kind(conn.cmds[k]) = ExpectedOrder[k]
                 /\ (conn.cmds[k].raised /\ k < n) =>
                        (k + 1 = n /\ Kind(conn.cmds[n]) = "rm")

\* C17, witness: the upload of put_file failed and the directory was
\* removed all the same
C17_Witness ==
    /\ conn.plugin = "pct-remote"
    /\ conn.op = "put_file"
    /\ conn.pc = "done"
    /\ Len(conn.cmds) = 3
    /\ conn.cmds[2].raised
    /\ Kind(conn.cmds[3]) = "rm"
    /\ conn.result.kind = "raise"

\* C18, as claimed: put_file and fetch_file of both plugins raise whenever
\* the pct push / pct pull they rely on does not succeed.
C18_FailedTransferRaises ==
    (/\ conn.plugin \in {"pct", "pct-remote"}
     /\ conn.op \in {"put_file", "fetch_file"}
     /\ conn.pc = "done"
     /\ \E k \in DOMAIN conn.cmds :
           /\ Kind(conn.cmds[k]) \in {"popen", "push", "pull"}
           /\ conn.cmds[k].rc # 0 \/ conn.cmds[k].raised)
    => conn.result.kind = "raise"

\* C19, as claimed: exec_command of pct raises AnsibleConnectionFailure
\* only when the container is stopped or missing, and returns the exit
\* code, stdout and stderr of every command that ran in the container.
C19_ExecRaisesOnlyForContainer ==
    (/\ conn.plugin = "pct"
     /\ conn.op = "exec_command"
     /\ conn.pc = "done")
    => /\ conn.result.kind = "raise" => conn.container # "running"
       /\ conn.ran => /\ conn.result.kind = "return"
                      /\ conn.result.rc = conn.cmds[1].rc

====
